---- MODULE Spec2Model ----
(***************************************************************************)
(* Model of the text chunker of openai_fm_automation.js                    *)
(* (splitTextAtBoundaries) as a state machine: one call of the function on *)
(* an arbitrary bounded text and limit, one action per loop iteration.     *)
(* A string is a sequence of one-character strings; indices of the source  *)
(* are 0-based and kept 0-based in the operators below.                    *)
(***************************************************************************)
EXTENDS Integers, Sequences, FiniteSets, TLC

\* ------------------------------------------------------------------ bounds
\* Longest input text explored.
MaxLen == 5
\* Largest maxChars explored.
MaxLimit == 4
\* Smallest maxChars explored (the function accepts any number).
MinLimit == 0 - 1
\* A call with maxChars <= 0 never leaves the loop; it is followed for this
\* many iterations. A call with maxChars >= 1 is followed to its return.
MaxStuck == 2

\* Characters of the explored texts: a letter, the space, the newline
\* (whitespace that is not a space) and two of the sentence punctuations.
Chars == {"a", " ", "\n", ".", "!"}

\* What String.prototype.trim removes (restricted to Chars and the tab).
WhiteSpace == {" ", "\n", "\t"}

Texts == UNION {[1..n -> Chars] : n \in 0..MaxLen}

\* Longest text of words and spaces explored by SpecWords.
MaxWordLen == 7

\* Characters of those texts.
WordChars == {"a", " "}

WordTexts == UNION {[1..n -> WordChars] : n \in 0..MaxWordLen}

\* Longest text automateOpenAIFM is run on by SpecAuto.
MaxAutoLen == 5

\* The limit of the chunker in SpecAuto, standing for the default 999.
AutoLimit == 2

AutoTexts == UNION {[1..n -> WordChars] : n \in 0..MaxAutoLen}

\* ------------------------------------------------------- string primitives
Max(S) == CHOOSE x \in S : \A y \in S : y <= x

Min(S) == CHOOSE x \in S : \A y \in S : x <= y

Clamp(i, n) == IF i < 0 THEN 0 ELSE IF i > n THEN n ELSE i

\* s.substring(start, end): both clamped to [0, length], swapped if start > end.
substring(s, start, end) ==
  LET a == Clamp(start, Len(s))
      b == Clamp(end, Len(s))
      lo == IF a <= b THEN a ELSE b
      hi == IF a <= b THEN b ELSE a
  IN  SubSeq(s, lo + 1, hi)

\* s.substring(start)
substringFrom(s, start) == substring(s, start, Len(s))

\* s.lastIndexOf(pat): the largest 0-based index where pat occurs, or -1.
lastIndexOf(s, pat) ==
  LET at == {i \in 0..(Len(s) - Len(pat)) : SubSeq(s, i + 1, i + Len(pat)) = pat}
  IN  IF at = {} THEN 0 - 1 ELSE Max(at)

\* The 1-based positions of s that hold a non-whitespace character.
Solid(s) == {i \in 1..Len(s) : s[i] \notin WhiteSpace}

\* s.trim()
trim(s) == IF Solid(s) = {} THEN <<>> ELSE SubSeq(s, Min(Solid(s)), Max(Solid(s)))

\* The whitespace trim removes in front of s (all of s when s is whitespace).
leadingWs(s) == IF Solid(s) = {} THEN s ELSE SubSeq(s, 1, Min(Solid(s)) - 1)

\* The whitespace trim removes behind the last non-whitespace character of s.
trailingWs(s) == IF Solid(s) = {} THEN <<>> ELSE SubSeq(s, Max(Solid(s)) + 1, Len(s))

\* --------------------------------------------------- boundary selection
paragraphBreak == <<"\n", "\n">>

sentenceEndings == << <<".", " ">>, <<"!", " ">>, <<"?", " ">> >>

\* Mutant: the paragraph break is searched in the whole remaining text.
paragraphEndOf_unbounded(rem, m) == lastIndexOf(rem, paragraphBreak)

\* Mutant: a single newline is taken for a paragraph break.
paragraphEndOf_singleNewline(rem, m) == lastIndexOf(substring(rem, 0, m), <<"\n">>)

\* let paragraphEnd = remainingText.substring(0, maxChars).lastIndexOf('\n\n')
paragraphEndOf(rem, m) == lastIndexOf(substring(rem, 0, m), paragraphBreak)

\* Mutant: the first kind of ending that occurs is taken, not the latest one.
latestSentenceEnd_firstKind(rem, m) ==
  LET found == {k \in 1..Len(sentenceEndings) :
                  lastIndexOf(substring(rem, 0, m), sentenceEndings[k]) # 0 - 1}
  IN  IF found = {} THEN 0 - 1
      ELSE lastIndexOf(substring(rem, 0, m), sentenceEndings[Min(found)])

\* Math.max(...sentenceEndings.map(e => remainingText.substring(0, maxChars).lastIndexOf(e)))
latestSentenceEnd(rem, m) ==
  Max({lastIndexOf(substring(rem, 0, m), sentenceEndings[k]) : k \in 1..Len(sentenceEndings)})

\* sentenceEnd stays -1 unless no paragraph break was found.
sentenceEndOf(rem, m) ==
  IF paragraphEndOf(rem, m) = 0 - 1 THEN latestSentenceEnd(rem, m) ELSE 0 - 1

\* while (chunkEnd > 0 && remainingText[chunkEnd] !== ' ') chunkEnd--
RECURSIVE lastSpace(_, _)
lastSpace(rem, i) ==
  IF i > 0 /\ (i + 1 > Len(rem) \/ rem[i + 1] # " ") THEN lastSpace(rem, i - 1) ELSE i

\* Mutant: no forced split when the scan finds no space.
forcedSplit_missing(e, m) == e

\* Mutant: the forced split cuts one character past the limit.
forcedSplit_offByOne(e, m) == IF e = 0 THEN m + 1 ELSE e

\* Mutant: the forced split cuts after one character.
forcedSplit_oneChar(e, m) == IF e = 0 THEN 1 ELSE e

\* if (chunkEnd === 0) chunkEnd = maxChars
forcedSplit(e, m) == IF e = 0 THEN m ELSE e

\* Mutant: the scan starts one character before the limit.
wordEnd_scanFromBefore(rem, m) == forcedSplit(lastSpace(rem, m - 1), m - 1)

\* The word-boundary branch: the scan from maxChars, then the forced split.
wordEnd(rem, m) == forcedSplit(lastSpace(rem, m), m)

\* Use paragraph end if found, otherwise sentence end
boundaryEnd(p, s) == IF p # 0 - 1 THEN p + 2 ELSE s + 2

\* Mutant: a sentence ending within the limit is preferred to a paragraph break.
cutIndex_sentenceFirst(rem, m) ==
  LET p == paragraphEndOf(rem, m)
      s == latestSentenceEnd(rem, m)
  IN  IF s # 0 - 1 THEN s + 2
      ELSE IF p # 0 - 1 THEN p + 2
      ELSE wordEnd(rem, m)

\* The value of chunkEnd when the chunk is cut.
cutIndex(rem, m) ==
  LET p == paragraphEndOf(rem, m)
      s == sentenceEndOf(rem, m)
  IN  IF p = 0 - 1 /\ s = 0 - 1 THEN wordEnd(rem, m) ELSE boundaryEnd(p, s)

\* Mutant: the chunk stops one character before the cut.
chunkOf_shortByOne(rem, e) == trim(substring(rem, 0, e - 1))

\* const chunk = remainingText.substring(0, chunkEnd).trim()
chunkOf(rem, e) == trim(substring(rem, 0, e))

\* Mutant: the remaining text starts one character after the cut.
restOf_skipsOne(rem, e) == trim(substringFrom(rem, e + 1))

\* remainingText = remainingText.substring(chunkEnd).trim()
restOf(rem, e) == trim(substringFrom(rem, e))

\* Mutant: the short text is trimmed before it is returned.
wholeText_trimmed(t) == <<trim(t)>>

\* return [text]
wholeText(t) == <<t>>

\* ------------------------------------------- text_splitter.js: splitText
\* let chunkEnd = maxChars; the scan for the last space; the forced split
plainChunkEnd(rem, m) ==
  LET e == lastSpace(rem, m)
  IN  IF e = 0 THEN m ELSE e

\* The while loop of splitText, acc being the chunks pushed so far.
RECURSIVE splitTextLoop(_, _, _)
splitTextLoop(rem, m, acc) ==
  IF Len(rem) = 0 THEN acc
  ELSE IF Len(rem) <= m THEN Append(acc, rem)
  ELSE LET e == plainChunkEnd(rem, m)
       IN  splitTextLoop(trim(substringFrom(rem, e)), m,
                         Append(acc, trim(substring(rem, 0, e))))

\* splitText(text, maxChars), for maxChars >= 1
splitText(t, m) == IF Len(t) <= m THEN <<t>> ELSE splitTextLoop(t, m, <<>>)

\* ------------------------------------------------------------------- state
VARIABLES
  text,          \* argument: the text to split
  maxChars,      \* argument: the limit
  pc,            \* "call" before the call, "loop" inside the while, "returned"
  chunks,        \* the array being built, then the returned array
  remainingText, \* the loop's remainingText
  chunkEnd,      \* the loop's chunkEnd at the latest cut
  cutFrom,       \* remainingText as it was before the latest cut
  cuts,          \* offsets in text of the cuts made so far
  lead,          \* whitespace trimmed in front of the first chunk
  gaps,          \* whitespace trimmed between chunk k and chunk k+1
  tail,          \* whitespace trimmed from the end of the text
  variant,       \* which automateOpenAIFM runs: "openai_fm_automation.js" or "part_000"
  download,      \* options.download
  apc,           \* the position of automateOpenAIFM ("idle": it is not running)
  chunkI,        \* the chunk loop's i
  browser,       \* "none", "open" or "closed"
  events,        \* what happened on the page: <<"fill" | "stop" | "play", chunk number>>
  audioUrls,     \* the captured URLs, each named by the number of its chunk
  fileI,         \* the download loop's i
  downloaded,    \* the files written: chunk_<file>.mp3 from the URL of chunk <from>
  settled        \* the promise: "pending", "resolved" or "rejected"

splitVars == <<text, maxChars, pc, chunks, remainingText, chunkEnd, cutFrom, cuts, lead, gaps, tail>>

autoVars == <<variant, download, apc, chunkI, browser, events, audioUrls, fileI, downloaded, settled>>

vars == <<splitVars, autoVars>>

\* automateOpenAIFM is not running: the chunker is called on its own.
AutoIdle ==
  /\ variant = "none"
  /\ download = FALSE
  /\ apc = "idle"
  /\ chunkI = 0
  /\ browser = "none"
  /\ events = <<>>
  /\ audioUrls = <<>>
  /\ fileI = 0
  /\ downloaded = <<>>
  /\ settled = "pending"

\* The offset in text at which remainingText starts.
offset == Len(text) - Len(tail) - Len(remainingText)

Init ==
  /\ text \in Texts
  /\ maxChars \in MinLimit..MaxLimit
  /\ pc = "call"
  /\ chunks = <<>>
  /\ remainingText = <<>>
  /\ chunkEnd = 0
  /\ cutFrom = <<>>
  /\ cuts = <<>>
  /\ lead = <<>>
  /\ gaps = <<>>
  /\ tail = <<>>
  /\ AutoIdle

\* if (text.length <= maxChars) return [text]
ReturnWhole ==
  /\ pc = "call"
  /\ Len(text) <= maxChars
  /\ chunks' = wholeText(text)
  /\ pc' = "returned"
  /\ UNCHANGED <<text, maxChars, remainingText, chunkEnd, cutFrom, cuts, lead, gaps, tail>>
  /\ UNCHANGED autoVars

\* const chunks = []; let remainingText = text
EnterLoop ==
  /\ pc = "call"
  /\ Len(text) > maxChars
  /\ chunks' = <<>>
  /\ remainingText' = text
  /\ pc' = "loop"
  /\ UNCHANGED <<text, maxChars, chunkEnd, cutFrom, cuts, lead, gaps, tail>>
  /\ UNCHANGED autoVars

\* One iteration that ends in: chunks.push(remainingText); break
PushRest ==
  /\ pc = "loop"
  /\ Len(remainingText) > 0
  /\ Len(remainingText) <= maxChars
  /\ chunks' = Append(chunks, remainingText)
  /\ pc' = "returned"
  /\ UNCHANGED <<text, maxChars, remainingText, chunkEnd, cutFrom, cuts, lead, gaps, tail>>
  /\ UNCHANGED autoVars

\* One iteration that cuts a chunk off remainingText.
Cut ==
  /\ pc = "loop"
  /\ Len(remainingText) > 0
  /\ Len(remainingText) > maxChars
  /\ ~(maxChars < 1 /\ Len(chunks) >= MaxStuck)
  /\ LET e == cutIndex(remainingText, maxChars)
         piece == substring(remainingText, 0, e)
         rest == substringFrom(remainingText, e)
         more == Solid(rest) # {}
     IN  /\ chunkEnd' = e
         /\ cutFrom' = remainingText
         /\ chunks' = Append(chunks, chunkOf(remainingText, e))
         /\ remainingText' = restOf(remainingText, e)
         /\ cuts' = Append(cuts, offset + e)
         /\ lead' = IF chunks = <<>> THEN leadingWs(piece) ELSE lead
         /\ gaps' = IF more THEN Append(gaps, trailingWs(piece) \o leadingWs(rest)) ELSE gaps
         /\ tail' = IF more THEN trailingWs(rest) \o tail
                            ELSE trailingWs(piece) \o rest \o tail
  /\ UNCHANGED <<text, maxChars, pc>>
  /\ UNCHANGED autoVars

\* The while condition fails: return chunks
ReturnChunks ==
  /\ pc = "loop"
  /\ Len(remainingText) = 0
  /\ pc' = "returned"
  /\ UNCHANGED <<text, maxChars, chunks, remainingText, chunkEnd, cutFrom, cuts, lead, gaps, tail>>
  /\ UNCHANGED autoVars

Next == ReturnWhole \/ EnterLoop \/ PushRest \/ Cut \/ ReturnChunks

Spec == Init /\ [][Next]_vars

\* The same call on longer texts made of words and spaces only.
InitWords ==
  /\ text \in WordTexts
  /\ maxChars \in 1..MaxLimit
  /\ pc = "call"
  /\ chunks = <<>>
  /\ remainingText = <<>>
  /\ chunkEnd = 0
  /\ cutFrom = <<>>
  /\ cuts = <<>>
  /\ lead = <<>>
  /\ gaps = <<>>
  /\ tail = <<>>
  /\ AutoIdle

SpecWords == InitWords /\ [][Next]_vars

\* ---------------------------------------------------- automateOpenAIFM
\* The two versions of automateOpenAIFM under src/.
Variants == {"openai_fm_automation.js", "part_000"}

\* The function is entered: const chunks = splitTextAtBoundaries(text) runs
\* first (the chunker's actions), with the default limit.
InitAuto ==
  /\ text \in AutoTexts
  /\ maxChars = AutoLimit
  /\ pc = "call"
  /\ chunks = <<>>
  /\ remainingText = <<>>
  /\ chunkEnd = 0
  /\ cutFrom = <<>>
  /\ cuts = <<>>
  /\ lead = <<>>
  /\ gaps = <<>>
  /\ tail = <<>>
  /\ variant \in Variants
  /\ download \in BOOLEAN
  /\ apc = "launch"
  /\ chunkI = 0
  /\ browser = "none"
  /\ events = <<>>
  /\ audioUrls = <<>>
  /\ fileI = 0
  /\ downloaded = <<>>
  /\ settled = "pending"

\* An await before the try block of openai_fm_automation.js rejects: the
\* promise rejects at once. In part_000 the same await is inside the try
\* block: catch, then finally.
thrownBeforeTry ==
  IF variant = "openai_fm_automation.js"
    THEN /\ settled' = "rejected"
         /\ apc' = "done"
    ELSE /\ settled' = settled
         /\ apc' = "finally"

\* browser = await chromium.launch({ headless })
Launch ==
  /\ apc = "launch"
  /\ pc = "returned"
  /\ \E ok \in BOOLEAN :
       IF ok THEN /\ browser' = "open"
                  /\ apc' = "newContext"
                  /\ settled' = settled
             ELSE /\ browser' = browser
                  /\ thrownBeforeTry
  /\ UNCHANGED <<variant, download, chunkI, events, audioUrls, fileI, downloaded>>
  /\ UNCHANGED splitVars

\* const context = await browser.newContext()
NewContext ==
  /\ apc = "newContext"
  /\ \E ok \in BOOLEAN :
       IF ok THEN /\ apc' = "newPage"
                  /\ settled' = settled
             ELSE thrownBeforeTry
  /\ UNCHANGED <<variant, download, chunkI, browser, events, audioUrls, fileI, downloaded>>
  /\ UNCHANGED splitVars

\* const page = await context.newPage()
NewPage ==
  /\ apc = "newPage"
  /\ \E ok \in BOOLEAN :
       IF ok THEN /\ apc' = "setup"
                  /\ settled' = settled
             ELSE thrownBeforeTry
  /\ UNCHANGED <<variant, download, chunkI, browser, events, audioUrls, fileI, downloaded>>
  /\ UNCHANGED splitVars

\* Inside the try block: (part_000: the output directory,) page.goto, the
\* voice, the vibe; then the for loop is entered with i = 0.
Setup ==
  /\ apc = "setup"
  /\ \E ok \in BOOLEAN :
       apc' = IF ~ok THEN "finally"
              ELSE IF 0 < Len(chunks) THEN "fill" ELSE "afterLoop"
  /\ chunkI' = 0
  /\ UNCHANGED <<variant, download, browser, events, audioUrls, fileI, downloaded, settled>>
  /\ UNCHANGED splitVars

\* await textArea.click(); await textArea.fill(chunk)
Fill ==
  /\ apc = "fill"
  /\ \E ok \in BOOLEAN :
       IF ok THEN /\ events' = Append(events, <<"fill", chunkI + 1>>)
                  /\ apc' = "click"
             ELSE /\ events' = events
                  /\ apc' = "finally"
  /\ UNCHANGED <<variant, download, chunkI, browser, audioUrls, fileI, downloaded, settled>>
  /\ UNCHANGED splitVars

\* page.waitForRequest(...) is started; await playButton.click()
ClickPlay ==
  /\ apc = "click"
  /\ \E ok \in BOOLEAN : apc' = IF ok THEN "capture" ELSE "finally"
  /\ UNCHANGED <<variant, download, chunkI, browser, events, audioUrls, fileI, downloaded, settled>>
  /\ UNCHANGED splitVars

\* try { audioUrls.push((await apiRequestPromise).url()) } catch (e) { log }
Capture ==
  /\ apc = "capture"
  /\ \E ok \in BOOLEAN :
       audioUrls' = IF ok THEN Append(audioUrls, chunkI + 1) ELSE audioUrls
  /\ apc' = "waitStop"
  /\ UNCHANGED <<variant, download, chunkI, browser, events, fileI, downloaded, settled>>
  /\ UNCHANGED splitVars

\* Mutant: a timeout of the wait for Stop is ignored.
WaitStop_timeoutIgnored ==
  /\ apc = "waitStop"
  /\ \E ok \in BOOLEAN :
       events' = IF ok THEN Append(events, <<"stop", chunkI + 1>>) ELSE events
  /\ apc' = "waitPlay"
  /\ UNCHANGED <<variant, download, chunkI, browser, audioUrls, fileI, downloaded, settled>>
  /\ UNCHANGED splitVars

\* await page.locator(... "Stop" ...).first().waitFor({ timeout: 60000 })
WaitStop ==
  /\ apc = "waitStop"
  /\ \E ok \in BOOLEAN :
       IF ok THEN /\ events' = Append(events, <<"stop", chunkI + 1>>)
                  /\ apc' = "waitPlay"
             ELSE /\ events' = events
                  /\ apc' = "finally"
  /\ UNCHANGED <<variant, download, chunkI, browser, audioUrls, fileI, downloaded, settled>>
  /\ UNCHANGED splitVars

\* await page.locator(... "Play" ...).first().waitFor({ timeout: 180000 }); i++
WaitPlay ==
  /\ apc = "waitPlay"
  /\ \E ok \in BOOLEAN :
       IF ok THEN /\ events' = Append(events, <<"play", chunkI + 1>>)
                  /\ chunkI' = chunkI + 1
                  /\ apc' = IF chunkI + 1 < Len(chunks) THEN "fill" ELSE "afterLoop"
             ELSE /\ events' = events
                  /\ chunkI' = chunkI
                  /\ apc' = "finally"
  /\ UNCHANGED <<variant, download, browser, audioUrls, fileI, downloaded, settled>>
  /\ UNCHANGED splitVars

\* if (download && audioUrls.length > 0 [&& outputDir]) ... else ...
AfterLoop ==
  /\ apc = "afterLoop"
  /\ apc' = IF download /\ Len(audioUrls) > 0 THEN "download" ELSE "finally"
  /\ fileI' = 0
  /\ UNCHANGED <<variant, download, chunkI, browser, events, audioUrls, downloaded, settled>>
  /\ UNCHANGED splitVars

\* try { await downloadAudio(audioUrls[i], `chunk_${i + 1}.mp3`) } catch { log }; i++
Download ==
  /\ apc = "download"
  /\ \E ok \in BOOLEAN :
       LET got == IF ok THEN Append(downloaded,
                                    [file |-> fileI + 1, from |-> audioUrls[fileI + 1]])
                        ELSE downloaded
       IN  /\ downloaded' = got
           /\ apc' = IF fileI + 1 < Len(audioUrls) THEN "download"
                     ELSE IF Len(got) > 0 THEN "combine" ELSE "finally"
  /\ fileI' = fileI + 1
  /\ UNCHANGED <<variant, download, chunkI, browser, events, audioUrls, settled>>
  /\ UNCHANGED splitVars

\* try { await execPromise; delete the chunk files } catch { log }
Combine ==
  /\ apc = "combine"
  /\ apc' = "finally"
  /\ UNCHANGED <<variant, download, chunkI, browser, events, audioUrls, fileI, downloaded, settled>>
  /\ UNCHANGED splitVars

\* finally { if (browser) await browser.close() }; the promise resolves
Finally ==
  /\ apc = "finally"
  /\ browser' = IF browser = "open" THEN "closed" ELSE browser
  /\ settled' = "resolved"
  /\ apc' = "done"
  /\ UNCHANGED <<variant, download, chunkI, events, audioUrls, fileI, downloaded>>
  /\ UNCHANGED splitVars

NextAuto ==
  \/ Next
  \/ Launch \/ NewContext \/ NewPage \/ Setup
  \/ Fill \/ ClickPlay \/ Capture \/ WaitStop \/ WaitPlay
  \/ AfterLoop \/ Download \/ Combine \/ Finally

SpecAuto == InitAuto /\ [][NextAuto]_vars

\* ------------------------------------------------------- derived quantities
\* The chunks joined, chunk k and chunk k+1 separated by sep[k] where it exists.
RECURSIVE joinWith(_, _)
joinWith(cs, sep) ==
  IF cs = <<>> THEN <<>>
  ELSE IF Len(cs) = 1 THEN cs[1]
  ELSE cs[1] \o (IF sep = <<>> THEN <<>> ELSE sep[1])
             \o joinWith(Tail(cs), IF sep = <<>> THEN <<>> ELSE Tail(sep))

\* The chunks read one after the other.
flat(cs) == joinWith(cs, <<>>)

NotWhite(c) == c \notin WhiteSpace

\* s with all whitespace removed.
strip(s) == SelectSeq(s, NotWhite)

\* The whitespace-free run of text around the offset p (characters p and p+1,
\* 1-based, are the ones a cut at p separates): its first and last position.
runFirst(p) == Min({i \in 1..p : \A j \in i..p : text[j] \notin WhiteSpace})

runLast(p) == Max({i \in (p + 1)..Len(text) : \A j \in (p + 1)..i : text[j] \notin WhiteSpace})

\* A cut at offset p falls strictly inside a whitespace-free run.
insideRun(p) ==
  /\ 0 < p
  /\ p < Len(text)
  /\ text[p] \notin WhiteSpace
  /\ text[p + 1] \notin WhiteSpace

runLength(p) == runLast(p) - runFirst(p) + 1

allWhite(s) == \A i \in 1..Len(s) : s[i] \in WhiteSpace

\* ------------------------------------------------------------------ claims

\* C1: with maxChars >= 1 every chunk, while the array is built and when it is
\* returned, is at most maxChars long (boundary cuts, forced splits, remainder).
C1_ChunkWithinLimit ==
  maxChars >= 1 => \A k \in 1..Len(chunks) : Len(chunks[k]) <= maxChars

\* C1 witness: a returned array of several chunks, one filled to the limit by a
\* forced split (the text it was cut from holds no space), one shorter.
C1_Witness ==
  /\ pc = "returned"
  /\ maxChars >= 2
  /\ Len(chunks) >= 2
  /\ \E k \in 1..Len(chunks) : Len(chunks[k]) = maxChars
  /\ \E k \in 1..Len(chunks) : Len(chunks[k]) < maxChars
  /\ \A i \in 1..Len(text) : text[i] # " "

\* C2 (as claimed): with maxChars >= 1 no cut falls strictly inside a
\* whitespace-free run of the text that is at most maxChars long.
C2_NoCutInsideShortRun ==
  maxChars >= 1 =>
    \A k \in 1..Len(cuts) : insideRun(cuts[k]) => runLength(cuts[k]) > maxChars

\* C3: with maxChars >= 1 the returned chunks, read in order with whitespace
\* removed, are the text with whitespace removed.
C3_SolidCharactersKept ==
  (pc = "returned" /\ maxChars >= 1) => strip(flat(chunks)) = strip(text)

\* C3 witness: a returned split of three or more chunks whose text holds
\* different non-whitespace characters and whitespace that was trimmed away.
C3_Witness ==
  /\ pc = "returned"
  /\ maxChars >= 1
  /\ Len(chunks) >= 3
  /\ Len(flat(chunks)) < Len(text)
  /\ \E i, j \in 1..Len(text) : NotWhite(text[i]) /\ NotWhite(text[j]) /\ text[i] # text[j]

\* C4 (as claimed): the returned chunks joined with the whitespace consumed at
\* each cut are the trimmed text, for every text.
C4_JoinIsTrimmedText ==
  (pc = "returned" /\ maxChars >= 1) => joinWith(chunks, gaps) = trim(text)

\* C4 (amended): a text no longer than maxChars comes back as itself, untrimmed;
\* for a longer text the whitespace trimmed in front of the first chunk, the
\* chunks joined with the whitespace consumed at each cut, and the whitespace
\* trimmed from the end are together the original text, and the join is the
\* trimmed text whenever the first chunk is not empty.
C4_JoinRebuildsText ==
  (pc = "returned" /\ maxChars >= 1) =>
    /\ Len(text) <= maxChars => joinWith(chunks, gaps) = text
    /\ Len(text) > maxChars =>
         /\ lead \o joinWith(chunks, gaps) \o tail = text
         /\ Len(gaps) = Len(chunks) - 1 \/ chunks = <<>>
         /\ allWhite(lead) /\ allWhite(tail)
         /\ \A k \in 1..Len(gaps) : allWhite(gaps[k])
         /\ chunks[1] # <<>> => joinWith(chunks, gaps) = trim(text)

\* C4 witness: a returned split with whitespace trimmed in front, consumed at a
\* cut and trimmed from the end.
C4_Witness ==
  /\ pc = "returned"
  /\ maxChars >= 1
  /\ Len(text) > maxChars
  /\ Len(chunks) >= 2
  /\ chunks[1] # <<>>
  /\ lead # <<>>
  /\ tail # <<>>
  /\ \E k \in 1..Len(gaps) : gaps[k] # <<>>

\* C5: a text no longer than maxChars is returned as the one chunk, unmodified.
C5_ShortTextUnchanged ==
  (pc = "returned" /\ Len(text) <= maxChars) => chunks = <<text>>

\* C5 witness: such a text with a paragraph break, a sentence ending and
\* whitespace around it has been returned.
C5_Witness ==
  /\ pc = "returned"
  /\ Len(text) <= maxChars
  /\ lastIndexOf(text, paragraphBreak) # 0 - 1
  /\ latestSentenceEnd(text, Len(text)) # 0 - 1
  /\ text # trim(text)

\* C6 (as claimed): with maxChars >= 1 every chunk is a non-empty string.
C6_ChunksNonEmpty ==
  maxChars >= 1 => \A k \in 1..Len(chunks) : chunks[k] # <<>>

\* C7 (as claimed): a call with maxChars <= 0 is rejected: it does not enter
\* the loop, returns no array and builds no empty chunk.
C7_NonPositiveLimitRejected ==
  maxChars <= 0 =>
    /\ pc \in {"call", "threw"}
    /\ \A k \in 1..Len(chunks) : chunks[k] # <<>>

\* C8: with maxChars >= 1, every iteration that stays in the loop has a cut
\* index >= 1 and leaves remainingText strictly shorter, so the length of
\* remainingText bounds the iterations left before the call returns.
C8_LoopProgress ==
  [][(pc = "loop" /\ pc' = "loop" /\ maxChars >= 1)
       => (chunkEnd' >= 1 /\ Len(remainingText') < Len(remainingText))]_vars

\* C8 witness: a call that cut three times or more has returned.
C8_Witness ==
  /\ pc = "returned"
  /\ maxChars >= 1
  /\ Len(text) > maxChars
  /\ Len(cuts) >= 3

\* C9 (as claimed): the empty text with maxChars >= 1 returns zero chunks.
C9_EmptyTextNoChunks ==
  (pc = "returned" /\ text = <<>> /\ maxChars >= 1) => chunks = <<>>

\* The first maxChars characters of the text the latest cut was made from.
cutHead == substring(cutFrom, 0, maxChars)

\* C10's case: that head holds a paragraph break and a later sentence ending.
paragraphThenSentence ==
  /\ cuts # <<>>
  /\ lastIndexOf(cutHead, paragraphBreak) # 0 - 1
  /\ \E k \in 1..Len(sentenceEndings) :
       lastIndexOf(cutHead, sentenceEndings[k]) > lastIndexOf(cutHead, paragraphBreak)

\* C10: in that case the cut is right after the last paragraph break, the chunk
\* is what precedes it and the remaining text is what follows it.
C10_ParagraphBeforeSentence ==
  paragraphThenSentence =>
    LET p == lastIndexOf(cutHead, paragraphBreak)
    IN  /\ chunkEnd = p + 2
        /\ chunks[Len(cuts)] = trim(SubSeq(cutFrom, 1, p + 2))
        /\ remainingText = trim(SubSeq(cutFrom, p + 3, Len(cutFrom)))

\* C10 witness: such a cut was made and the sentence ending is still in the
\* remaining text.
C10_Witness ==
  /\ paragraphThenSentence
  /\ maxChars >= 1
  /\ \E k \in 1..Len(sentenceEndings) :
       lastIndexOf(remainingText \o <<" ">>, sentenceEndings[k]) # 0 - 1

\* C11 (as claimed): with maxChars >= 1 a text longer than maxChars returns at
\* least 2 chunks.
C11_LongTextTwoChunks ==
  (pc = "returned" /\ maxChars >= 1 /\ Len(text) > maxChars) => Len(chunks) >= 2

\* C11 (amended): such a text returns at least 1 chunk, and at least 2 when
\* the trimmed text is longer than maxChars.
C11_LongTrimmedTextTwoChunks ==
  (pc = "returned" /\ maxChars >= 1 /\ Len(text) > maxChars) =>
    /\ Len(chunks) >= 1
    /\ Len(trim(text)) > maxChars => Len(chunks) >= 2

\* C11 witness: a text with whitespace around it, longer than maxChars even
\* when trimmed, came back in 2 chunks or more.
C11_Witness ==
  /\ pc = "returned"
  /\ maxChars >= 1
  /\ Len(trim(text)) > maxChars
  /\ text # trim(text)
  /\ Len(chunks) >= 2

\* ceil(a / b) for b >= 1
ceilDiv(a, b) == (a + b - 1) \div b

\* C12 (as claimed, on the texts longer than maxChars whose chunks are all
\* non-empty): the number of chunks returned, one per loop iteration, is at
\* most ceil(text.length / maxChars).
C12_ChunksWithinForcedBound ==
  (/\ pc = "returned"
   /\ maxChars >= 1
   /\ Len(text) > maxChars
   /\ \A k \in 1..Len(chunks) : chunks[k] # <<>>)
    => Len(chunks) <= ceilDiv(Len(text), maxChars)

\* C12 (amended): for a text longer than maxChars the number of chunks is at
\* most text.length, and at most ceil(text.length / maxChars) when the text
\* holds no whitespace, where every cut is a forced split.
C12_ChunksWithinLength ==
  (pc \in {"loop", "returned"} /\ maxChars >= 1 /\ Len(text) > maxChars) =>
    /\ Len(chunks) <= Len(text)
    /\ Solid(text) = 1..Len(text) => Len(chunks) <= ceilDiv(Len(text), maxChars)

\* C12 witness: a text cut at word boundaries came back in more non-empty
\* chunks than ceil(text.length / maxChars).
C12_Witness ==
  /\ pc = "returned"
  /\ maxChars >= 2
  /\ Len(text) > maxChars
  /\ \A k \in 1..Len(chunks) : chunks[k] # <<>>
  /\ Len(chunks) > ceilDiv(Len(text), maxChars)
  /\ Len(chunks) <= Len(text)

\* C13's case: a returned split of a text longer than maxChars >= 1 that
\* holds no whitespace.
solidLongText ==
  /\ pc = "returned"
  /\ maxChars >= 1
  /\ Len(text) > maxChars
  /\ Solid(text) = 1..Len(text)

\* C13: such a text returns exactly ceil(n / maxChars) chunks, the i-th
\* (0-based) being text[i*maxChars, min((i+1)*maxChars, n)).
C13_ForcedSplitChunks ==
  solidLongText =>
    /\ Len(chunks) = ceilDiv(Len(text), maxChars)
    /\ \A i \in 0..(Len(chunks) - 1) :
         chunks[i + 1] = SubSeq(text, i * maxChars + 1,
                                IF (i + 1) * maxChars < Len(text)
                                  THEN (i + 1) * maxChars ELSE Len(text))

\* C13 witness: three chunks of different characters, the last one shorter
\* than maxChars.
C13_Witness ==
  /\ solidLongText
  /\ maxChars >= 2
  /\ Len(chunks) = 3
  /\ Len(chunks[3]) < maxChars
  /\ chunks[1] # chunks[2]

\* The last occurrence in the head of the latest cut of each sentence ending.
endingAt(k) == lastIndexOf(cutHead, sentenceEndings[k])

\* C15's case: the latest cut was made from a text longer than maxChars whose
\* head holds no paragraph break and at least one sentence ending.
sentenceWithoutParagraph ==
  /\ cuts # <<>>
  /\ lastIndexOf(cutHead, paragraphBreak) = 0 - 1
  /\ \E k \in 1..Len(sentenceEndings) : endingAt(k) # 0 - 1

\* C15: in that case the cut index is s + 2, s the largest of the last
\* occurrences of the three endings, and the chunk ends with '.', '!' or '?'.
C15_CutAfterLatestSentence ==
  sentenceWithoutParagraph =>
    LET s == Max({endingAt(k) : k \in 1..Len(sentenceEndings)})
        chunk == chunks[Len(cuts)]
    IN  /\ chunkEnd = s + 2
        /\ chunk # <<>>
        /\ chunk[Len(chunk)] \in {".", "!", "?"}

\* C15 witness: the cut was made after a sentence ending although the head
\* held a space later than that ending, before a letter of the remaining text.
C15_Witness ==
  /\ sentenceWithoutParagraph
  /\ \E i \in (chunkEnd + 2)..Len(cutHead) : cutHead[i] = " "
  /\ \E i \in 1..Len(remainingText) : remainingText[i] = "a"

\* C18's case: the returned split of a text that holds no paragraph break
\* and no sentence ending, with maxChars >= 1.
plainText ==
  /\ pc = "returned"
  /\ maxChars >= 1
  /\ lastIndexOf(text, paragraphBreak) = 0 - 1
  /\ \A k \in 1..Len(sentenceEndings) : lastIndexOf(text, sentenceEndings[k]) = 0 - 1

\* C18: on such a text splitTextAtBoundaries returns what splitText returns.
C18_SameAsSplitText ==
  plainText => chunks = splitText(text, maxChars)

\* C18 witness: such a text with punctuation, a single newline and a space
\* came back in three chunks or more.
C18_Witness ==
  /\ plainText
  /\ maxChars >= 2
  /\ Len(chunks) >= 3
  /\ \E p, q, r \in 1..Len(text) :
       text[p] \in {".", "!"} /\ text[q] = "\n" /\ text[r] = " "

isFill(e) == e[1] = "fill"

\* The chunk numbers filled into the text area, in the order of the fills.
fills == SelectSeq(events, isFill)

\* C14: the k-th fill is of chunk k (in the chunker's order, each chunk at
\* most once, no more fills than chunks), and chunk n + 1 is filled only
\* after chunk n was filled, then Stop was observed, then Play was observed.
C14_OneChunkAtATimeInOrder ==
  /\ Len(fills) <= Len(chunks)
  /\ \A k \in 1..Len(fills) : fills[k][2] = k
  /\ \A p \in 1..Len(events) :
       (events[p][1] = "fill" /\ events[p][2] > 1) =>
         \E f, q, r \in 1..Len(events) :
           /\ f < q /\ q < r /\ r < p
           /\ events[f] = <<"fill", events[p][2] - 1>>
           /\ events[q] = <<"stop", events[p][2] - 1>>
           /\ events[r] = <<"play", events[p][2] - 1>>

\* C14 witness: a run over three chunks has played all of them and settled.
C14_Witness ==
  /\ Len(chunks) = 3
  /\ Len(fills) = 3
  /\ events[Len(events)] = <<"play", 3>>
  /\ settled = "resolved"

\* C16 (as claimed): in both versions, once the browser was launched it is
\* closed when the promise settles.
C16_BrowserClosedWhenSettled ==
  (settled # "pending" /\ browser # "none") => browser = "closed"

\* C17 (as claimed): chunk_k.mp3 is downloaded from the URL captured while
\* chunk k was played.
C17_FileFromOwnChunk ==
  \A d \in 1..Len(downloaded) : downloaded[d].from = downloaded[d].file

====
